---- MODULE Spec2Model ----
(***************************************************************************)
(* Model of the snake game loop of src/snake.py: init_game, the event      *)
(* drain, the move/collision/food step of run_game, show_game_over, main.  *)
(* Cells and directions are pairs <<x, y>> of integers in screen units.    *)
(***************************************************************************)
EXTENDS Integers, Sequences, FiniteSets, TLC

\* ---- program constants (src/snake.py:10-11) ----
WIDTH == 600
HEIGHT == 400
GRID_SIZE == 20

\* ---- bounds of the model ----
\* input events arrive only during the first MaxInputTicks iterations
MaxInputTicks == 2
\* at most MaxEvents events are returned by one pygame.event.get()
MaxEvents == 2

\* outcomes of the random generator that are explored besides the two
\* ends of the requested range
RandSample == {5, 6}

VARIABLES
    snake,      \* list of cells, head first
    snake_dir,  \* current direction
    food,       \* food cell
    score,      \* food eaten so far
    running,    \* loop flag of run_game
    events,     \* list returned by the last pygame.event.get()
    ev_i,       \* number of events of that list already handled
    pc,         \* position of the program
    ticks,      \* iterations of the game loop completed
    shown,      \* scores displayed by show_game_over, in order
    result      \* values returned by main (empty until it returns)

vars ==
    <<snake, snake_dir, food, score, running, events, ev_i, pc, ticks, shown, result>>

\* ---- event kinds delivered by pygame.event.get() ----
EventKinds == {"QUIT", "K_UP", "K_DOWN", "K_LEFT", "K_RIGHT", "K_OTHER"}

EventLists == UNION {[1..n -> EventKinds] : n \in 0..MaxEvents}

\* random.randint(lo, hi): any integer of lo..hi (explored: both ends and
\* the sampled values)
RandInt(lo, hi) == {n \in lo..hi : n \in {lo, hi} \/ n \in RandSample}

\* variant of RandFood: the "- 1" of the randint bounds forgotten
RandFoodInclusive ==
    {<<i * GRID_SIZE, j * GRID_SIZE>> :
        i \in RandInt(0, WIDTH \div GRID_SIZE),
        j \in RandInt(0, HEIGHT \div GRID_SIZE)}

\* variant of RandFood: WIDTH and HEIGHT exchanged
RandFoodSwapped ==
    {<<i * GRID_SIZE, j * GRID_SIZE>> :
        i \in RandInt(0, (HEIGHT \div GRID_SIZE) - 1),
        j \in RandInt(0, (WIDTH \div GRID_SIZE) - 1)}

\* the food expression of init_game and run_game
RandFood ==
    {<<i * GRID_SIZE, j * GRID_SIZE>> :
        i \in RandInt(0, (WIDTH \div GRID_SIZE) - 1),
        j \in RandInt(0, (HEIGHT \div GRID_SIZE) - 1)}

\* variant of InitSnake: the body laid out on the grid behind (80, 100)
InitSnakeAligned == <<<<120, 100>>, <<100, 100>>, <<80, 100>>>>

\* init_game: the snake and direction it returns
InitSnake == <<<<100, 100>>, <<90, 100>>, <<80, 100>>>>
InitDir == <<GRID_SIZE, 0>>

Init ==
    /\ snake = InitSnake
    /\ snake_dir = InitDir
    /\ food \in RandFood
    /\ score = 0
    /\ running = TRUE
    /\ events = <<>>
    /\ ev_i = 0
    /\ pc = "poll"
    /\ ticks = 0
    /\ shown = <<>>
    /\ result = <<>>

\* ---- helpers ----
Cells(s) == {s[i] : i \in 1..Len(s)}

\* variant of KeyDir: the reversal guards forgotten
KeyDirUnguarded(d, key) ==
    IF key = "K_UP" THEN <<0, 0 - GRID_SIZE>>
    ELSE IF key = "K_DOWN" THEN <<0, GRID_SIZE>>
    ELSE IF key = "K_LEFT" THEN <<0 - GRID_SIZE, 0>>
    ELSE IF key = "K_RIGHT" THEN <<GRID_SIZE, 0>>
    ELSE d

\* the KEYDOWN branch of the event loop: direction after one key
KeyDir(d, key) ==
    IF key = "K_UP" /\ d # <<0, GRID_SIZE>> THEN <<0, 0 - GRID_SIZE>>
    ELSE IF key = "K_DOWN" /\ d # <<0, 0 - GRID_SIZE>> THEN <<0, GRID_SIZE>>
    ELSE IF key = "K_LEFT" /\ d # <<GRID_SIZE, 0>> THEN <<0 - GRID_SIZE, 0>>
    ELSE IF key = "K_RIGHT" /\ d # <<0 - GRID_SIZE, 0>> THEN <<GRID_SIZE, 0>>
    ELSE d

\* new_head of the move step
NewHead == <<snake[1][1] + snake_dir[1], snake[1][2] + snake_dir[2]>>

\* variant of OutOfBounds: ">" written for ">="
OutOfBoundsStrict(c) == c[1] < 0 \/ c[1] > WIDTH \/ c[2] < 0 \/ c[2] > HEIGHT

\* the wall part of the collision test
OutOfBounds(c) == c[1] < 0 \/ c[1] >= WIDTH \/ c[2] < 0 \/ c[2] >= HEIGHT

\* variant of Collides: the test against the body forgotten
CollidesWallOnly(c, s) == OutOfBounds(c)

\* variant of Collides: the wall tests forgotten
CollidesBodyOnly(c, s) == c \in Cells(s)

\* variant of Collides: the tail cell is not counted as occupied
CollidesExceptTail(c, s) == c \in Cells(SubSeq(s, 1, Len(s) - 1)) \/ OutOfBounds(c)

\* the collision test of the move step
Collides(c, s) == c \in Cells(s) \/ OutOfBounds(c)

\* variant of Pop: pop(0), the first cell is removed
PopFirst(s) == SubSeq(s, 2, Len(s))

\* snake.pop(): the list without its last cell
Pop(s) == SubSeq(s, 1, Len(s) - 1)

\* variant of MovedSnake: the tail is removed also when food is eaten
MovedSnakeAlwaysPop(s, new_head, f) == Pop(<<new_head>> \o s)

\* variant of MovedSnake: the tail is never removed
MovedSnakeNeverPop(s, new_head, f) == <<new_head>> \o s

\* the snake after insert(0, new_head) and the food test
MovedSnake(s, new_head, f) ==
    IF new_head = f THEN <<new_head>> \o s ELSE Pop(<<new_head>> \o s)

\* variant of NextScore: the score counts the ticks
NextScoreEveryTick(sc, new_head, f) == sc + 1

\* variant of NextScore: two points per food
NextScoreDouble(sc, new_head, f) == IF new_head = f THEN sc + 2 ELSE sc

\* the score after the food test
NextScore(sc, new_head, f) == IF new_head = f THEN sc + 1 ELSE sc

\* the for loop over the events is finished: the move step is next
AtMove == pc = "events" /\ ev_i = Len(events)

\* ---- actions ----
\* top of the loop body: pygame.event.get() returns the pending events
Poll ==
    /\ pc = "poll"
    /\ events' \in IF ticks < MaxInputTicks THEN EventLists ELSE {<<>>}
    /\ ev_i' = 0
    /\ pc' = "events"
    /\ UNCHANGED <<snake, snake_dir, food, score, running, ticks, shown, result>>

\* variant of HandleEvent: an accepted key also moves the snake at once
HandleEventMoving ==
    /\ pc = "events"
    /\ ev_i < Len(events)
    /\ LET event == events[ev_i + 1]
           d == KeyDir(snake_dir, event)
       IN IF event = "QUIT"
            THEN running' = FALSE /\ snake_dir' = snake_dir /\ snake' = snake
            ELSE /\ running' = running
                 /\ snake_dir' = d
                 /\ snake' = IF d = snake_dir THEN snake
                             ELSE MovedSnake(snake,
                                    <<snake[1][1] + d[1], snake[1][2] + d[2]>>,
                                    <<0 - 1, 0 - 1>>)
    /\ ev_i' = ev_i + 1
    /\ UNCHANGED <<food, score, events, pc, ticks, shown, result>>

\* one pass of the body of the for loop over the events
HandleEvent ==
    /\ pc = "events"
    /\ ev_i < Len(events)
    /\ LET event == events[ev_i + 1]
       IN IF event = "QUIT"
            THEN running' = FALSE /\ snake_dir' = snake_dir
            ELSE running' = running /\ snake_dir' = KeyDir(snake_dir, event)
    /\ ev_i' = ev_i + 1
    /\ UNCHANGED <<snake, food, score, events, pc, ticks, shown, result>>

\* the rest of the loop body after the for loop: move, collision, food,
\* drawing, clock.tick and the test of the while condition
Advance ==
    /\ AtMove
    /\ LET new_head == NewHead
       IN /\ running' = (running /\ ~Collides(new_head, snake))
          /\ snake' = MovedSnake(snake, new_head, food)
          /\ score' = NextScore(score, new_head, food)
          /\ food' \in IF new_head = food THEN RandFood ELSE {food}
    /\ ticks' = ticks + 1
    /\ pc' = IF running' THEN "poll" ELSE "over"
    /\ UNCHANGED <<snake_dir, events, ev_i, shown, result>>

\* show_game_over(screen, font, score) and the return of run_game
ShowGameOver ==
    /\ pc = "over"
    /\ shown' = Append(shown, score)
    /\ pc' = "quit"
    /\ UNCHANGED <<snake, snake_dir, food, score, running, events, ev_i, ticks, result>>

\* main: pygame.quit() and return score
MainExit ==
    /\ pc = "quit"
    /\ result' = <<score>>
    /\ pc' = "done"
    /\ UNCHANGED <<snake, snake_dir, food, score, running, events, ev_i, ticks, shown>>

Next == Poll \/ HandleEvent \/ Advance \/ ShowGameOver \/ MainExit

Spec == Init /\ [][Next]_vars

\* ---- the program without arrow keys and without quit ----
\* pygame.event.get() when only other events arrive
PollIdle ==
    /\ pc = "poll"
    /\ events' \in UNION {[1..n -> {"K_OTHER"}] : n \in 0..MaxEvents}
    /\ ev_i' = 0
    /\ pc' = "events"
    /\ UNCHANGED <<snake, snake_dir, food, score, running, ticks, shown, result>>

NextIdle == PollIdle \/ HandleEvent \/ Advance \/ ShowGameOver \/ MainExit

\* the loop and main run on by themselves: every enabled step is taken
SpecIdle == Init /\ [][NextIdle]_vars /\ WF_vars(NextIdle)

\* ======================= properties =======================
\* direction requested by an arrow key
KeyVector(key) ==
    CASE key = "K_UP" -> <<0, -20>>
      [] key = "K_DOWN" -> <<0, 20>>
      [] key = "K_LEFT" -> <<-20, 0>>
      [] key = "K_RIGHT" -> <<20, 0>>

ArrowKeys == {"K_UP", "K_DOWN", "K_LEFT", "K_RIGHT"}

Opposite(d) == <<0 - d[1], 0 - d[2]>>

\* displacement of the last move, read off the snake: head minus neck
LastStep == <<snake[1][1] - snake[2][1], snake[1][2] - snake[2][2]>>

OffBoard(c) == c[1] < 0 \/ c[1] >= 600 \/ c[2] < 0 \/ c[2] >= 400

NoDuplicates(s) == \A i, j \in 1..Len(s) : i # j => s[i] # s[j]

\* C1: on a tick whose new_head already occurs in the snake, the session
\* ends and the snake after the tick is the snake before the tick.
C1_SelfCollisionKeepsSnake ==
    [][(AtMove /\ NewHead \in {snake[i] : i \in 1..Len(snake)})
        => (running' = FALSE /\ snake' = snake)]_vars

\* C2: once a quit event has been handled in the event loop, snake, food
\* and score are not changed any more (no further advance).
C2_QuitStopsAdvance ==
    [][(pc = "events" /\ ~running)
        => (snake' = snake /\ food' = food /\ score' = score)]_vars

\* C3: from the second tick on, the direction used by the move is never
\* the reverse of the previous move, i.e. new_head is never the neck cell.
C3_NoReversalAcrossTicks ==
    (AtMove /\ ticks >= 1)
        => (snake_dir # Opposite(LastStep) /\ NewHead # snake[2])

\* C4: a tick whose new_head has x < 0, x >= 600, y < 0 or y >= 400 ends
\* the session.
C4_BoundaryEnds ==
    [][(AtMove /\ OffBoard(NewHead)) => (running' = FALSE /\ pc' = "over")]_vars

\* C4 witness: the session has ended with the head moved to x = 600
C4_Witness == pc = "over" /\ snake[1][1] = 600 /\ events = <<>>

\* C5: on a tick whose new_head is the food cell, the snake grows by
\* exactly one cell and the score by exactly one.
C5_EatingTick ==
    [][(AtMove /\ NewHead = food)
        => (Len(snake') = Len(snake) + 1 /\ score' = score + 1)]_vars

\* C5 witness: food has been eaten twice
C5_Witness == score = 2 /\ Len(snake) = 5

\* C6: on a tick whose new_head is not the food cell, the length of the
\* snake does not change.
C6_NonEatingTick ==
    [][(AtMove /\ NewHead # food) => Len(snake') = Len(snake)]_vars

\* C6 witness: a grown snake has moved on without eating
C6_Witness ==
    /\ score = 1
    /\ ticks >= 3
    /\ food \notin {snake[i] : i \in 1..Len(snake)}
    /\ pc = "poll"

\* C7: one arrow key requesting the reverse of the direction leaves the
\* direction as it is, any other arrow key replaces it, and the move
\* displaces the head by the direction and keeps the direction.
C7_ReversalRejected ==
    [][/\ (pc = "events" /\ ev_i < Len(events)
            /\ events[ev_i + 1] \in ArrowKeys)
          => snake_dir' = IF KeyVector(events[ev_i + 1]) = Opposite(snake_dir)
                            THEN snake_dir
                            ELSE KeyVector(events[ev_i + 1])
       /\ AtMove
          => /\ snake_dir' = snake_dir
             /\ snake'[1] = <<snake[1][1] + snake_dir[1],
                              snake[1][2] + snake_dir[2]>>]_vars

\* C7 witness: K_LEFT alone was handled while moving right; the direction
\* is still right and the move has displaced the head by (20, 0)
C7_Witness ==
    /\ events = <<"K_LEFT">>
    /\ ev_i = 1
    /\ pc = "poll"
    /\ ticks = 1
    /\ snake_dir = <<20, 0>>
    /\ snake[1] = <<120, 100>>

\* C8: the initial session has a 3-cell snake with cells 20 apart
\* horizontally, head rightmost, direction (20, 0), score 0, running.
C8_InitialSession ==
    (ticks = 0 /\ pc = "poll")
        => /\ Len(snake) = 3
           /\ \A i \in 1..2 :
                /\ snake[i][1] = snake[i + 1][1] + 20
                /\ snake[i][2] = snake[i + 1][2]
           /\ snake_dir = <<20, 0>>
           /\ score = 0
           /\ running

\* C9: while the session is running the snake contains no cell twice.
C9_NoDuplicatesWhileRunning == running => NoDuplicates(snake)

\* C9 witness: a running session whose grown snake lies over the food
C9_Witness ==
    /\ running
    /\ Len(snake) >= 4
    /\ food \in {snake[i] : i \in 1..Len(snake)}
    /\ snake_dir # <<20, 0>>

\* C10: the food cell is always inside [0,600) x [0,400) and both of its
\* coordinates are multiples of 20.
C10_FoodValid ==
    /\ food[1] >= 0 /\ food[1] < 600
    /\ food[2] >= 0 /\ food[2] < 400
    /\ food[1] % 20 = 0
    /\ food[2] % 20 = 0

\* C10 witness: food regenerated at the far corner of the board
C10_Witness == score >= 1 /\ food = <<580, 380>>

OnBoardGrid(c) ==
    /\ c[1] >= 0 /\ c[1] < 600 /\ c[1] % 20 = 0
    /\ c[2] >= 0 /\ c[2] < 400 /\ c[2] % 20 = 0

\* C11 as stated: after a tick that eats the food, the food cell differs
\* from the cell that was eaten.
C11_FoodChangesWhenEaten ==
    [][(AtMove /\ NewHead = food) => food' # food]_vars

\* C11 amended: after a tick that eats the food, the food cell is a freshly
\* drawn grid-aligned cell of the board; it may be the cell just eaten.
C11_FoodRedrawnWhenEaten ==
    [][(AtMove /\ NewHead = food) => OnBoardGrid(food')]_vars

\* C11 witness: the food eaten at (120, 100) was drawn again at (120, 100)
C11_Witness ==
    /\ ticks = 1
    /\ score = 1
    /\ snake[1] = <<120, 100>>
    /\ food = <<120, 100>>

\* C12: while the session is running every cell of the snake lies within
\* [0,600) x [0,400).
C12_CellsInBounds ==
    running => \A i \in 1..Len(snake) :
                  /\ snake[i][1] >= 0 /\ snake[i][1] < 600
                  /\ snake[i][2] >= 0 /\ snake[i][2] < 400

\* C12 witness: a running session with the head in the last column
C12_Witness == running /\ snake[1][1] = 580 /\ pc = "poll"

\* C13: the score starts at 0, is never negative, never decreases, changes
\* by at most 1 per step, and increases only in a move whose new_head is
\* the food cell.
C13_ScoreMonotonic ==
    /\ [](score >= 0 /\ (ticks = 0 => score = 0))
    /\ [][/\ score' \in {score, score + 1}
          /\ score' # score => (AtMove /\ NewHead = food)]_vars

\* C13 witness: the program has finished with a positive score
C13_Witness == pc = "done" /\ score >= 1

\* the display and return part of C14: the game-over screen is shown at
\* most once, only after the loop has ended, and the score it shows and
\* the score main returns are the score at loop exit
C14_DisplayOnce ==
    /\ Len(shown) <= 1
    /\ Len(result) <= 1
    /\ (shown # <<>>) <=> (pc \in {"quit", "done"})
    /\ (result # <<>>) <=> (pc = "done")
    /\ shown # <<>> => shown[1] = score
    /\ result # <<>> => result[1] = score
    /\ pc \in {"over", "quit", "done"} => ~running

\* C14: on every path that ends the loop the game-over screen is shown
\* exactly once, after the last state update and before the exit, with the
\* score at loop exit, which is also returned; and once the session has
\* ended (running is False) no advance happens any more.
C14_GameOverOrdering ==
    /\ []C14_DisplayOnce
    /\ [][~running => (snake' = snake /\ food' = food /\ score' = score
                        /\ ticks' = ticks)]_vars

\* C15: handling an arrow key, accepted or rejected, leaves snake, food,
\* score and the running flag unchanged; the move leaves the direction
\* unchanged.
C15_DirectionFrame ==
    [][/\ (pc = "events" /\ ev_i < Len(events)
            /\ events[ev_i + 1] \in ArrowKeys)
          => (snake' = snake /\ food' = food /\ score' = score
               /\ running' = running)
       /\ AtMove => snake_dir' = snake_dir]_vars

\* C15 witness: K_UP was accepted and K_DOWN rejected before the first
\* move, and the snake is still the initial one
C15_Witness ==
    /\ events = <<"K_UP", "K_DOWN">>
    /\ ev_i = 2
    /\ ticks = 0
    /\ snake_dir = <<0, -20>>
    /\ snake = <<<<100, 100>>, <<90, 100>>, <<80, 100>>>>
    /\ running

\* C16: on a non-terminal tick the snake becomes new_head followed by the
\* old snake, without its last cell unless the food is eaten; from
\* [(100,100),(90,100),(80,100)] with direction (20,0) and food not at
\* (120,100) it becomes [(120,100),(100,100),(90,100)], score unchanged.
C16_StepShape ==
    [][/\ (AtMove /\ running')
          => snake' = IF NewHead = food
                        THEN <<NewHead>> \o snake
                        ELSE <<NewHead>> \o SubSeq(snake, 1, Len(snake) - 1)
       /\ (AtMove /\ snake = <<<<100, 100>>, <<90, 100>>, <<80, 100>>>>
            /\ snake_dir = <<20, 0>> /\ food # <<120, 100>>)
          => /\ snake' = <<<<120, 100>>, <<100, 100>>, <<90, 100>>>>
             /\ score' = score]_vars

\* C16 witness: the first move was made to the right without eating
C16_Witness ==
    /\ ticks = 1
    /\ score = 0
    /\ running
    /\ events = <<>>
    /\ snake = <<<<120, 100>>, <<100, 100>>, <<90, 100>>>>

\* C17: in a tick without a quit event the session stays running exactly
\* when new_head is on the board and is not a cell of the snake as it is
\* before the tick, the tail cell included.
C17_NoSpuriousGameOver ==
    [][(AtMove /\ running)
        => (running' <=> (/\ ~OffBoard(NewHead)
                          /\ \A i \in 1..Len(snake) : snake[i] # NewHead))]_vars

\* C17 witness: without a quit, the first move went into the cell of the
\* tail (80, 100) and ended the session
C17_Witness ==
    /\ pc = "over"
    /\ ticks = 1
    /\ snake[1] = <<80, 100>>
    /\ \A i \in 1..Len(events) : events[i] # "QUIT"

\* C18: on a tick that ends the session by a collision, score and food
\* after the tick are score and food before the tick.
C18_ScoreFrozenOnTerminalTick ==
    [][(AtMove /\ running /\ ~running')
        => (score' = score /\ food' = food)]_vars

\* C19: the length of the snake is always 3 plus the score.
C19_LengthScoreCoupling == Len(snake) = 3 + score

\* C19 witness: three foods eaten
C19_Witness == score = 3 /\ Len(snake) = 6 /\ pc = "done"

\* C20: with no arrow key and no quit event the loop ends exactly on the
\* 25th tick, by the head moving to (600, 100) (a wall collision, not a
\* self-collision), whatever the food draws are, and the program exits.
C20_IdleTermination ==
    /\ [](pc = "poll" => (running /\ ticks < 25))
    /\ [](pc \in {"over", "quit", "done"}
            => /\ ticks = 25
               /\ ~running
               /\ snake[1] = <<600, 100>>
               /\ NoDuplicates(snake))
    /\ <>(pc = "done")

\* C20 witness: the program has exited after 25 ticks, having eaten twice
C20_Witness ==
    /\ pc = "done"
    /\ ticks = 25
    /\ score = 2
    /\ snake[1][1] = 600
====
